---- MODULE Spec2Model ----
(***************************************************************************)
(* Model of HW4/utils.py: ChatDictionary, ChatDataset, pad_tensor,         *)
(* argsort, batchify, reorder_encoder_states and                           *)
(* reorder_decoder_incremental_state.                                      *)
(*                                                                         *)
(* Python lists and 1-D tensors are sequences; Python positions are kept   *)
(* 0-based as values and read through At.  A call that raises is a result  *)
(* record whose status names the exception.                                *)
(***************************************************************************)
EXTENDS Integers, Sequences, FiniteSets

VARIABLES dict_file, dictionary, op, args, result

vars == <<dict_file, dictionary, op, args, result>>

\* ---------------------------------------------------------------- bounds
MaxDictLines == 3
MaxTokens == 2
MaxSamples == 2
MaxLen == 3
MaxKey == 2
MaxLists == 2
MaxBatch == 2
MaxVec == 2
MaxLayers == 1
MaxInd == 2
MaxTuple == 2

\* ------------------------------------------------------- generic helpers
SeqsUpTo(S, n) == UNION {[1..k -> S] : k \in 0..n}

\* lst[i] of Python, i counted from 0
At(lst, i) == lst[i + 1]

Ok(v) == [status |-> "ok", value |-> v]

Raise(e) == [status |-> e, value |-> <<>>]

Reversed(s) == [j \in 1..Len(s) |-> s[Len(s) + 1 - j]]

\* d[k] = v on a Python dict held as a function
DictPut(d, k, v) == [x \in DOMAIN d \cup {k} |-> IF x = k THEN v ELSE d[x]]

\* ' '.join(words): one string
RECURSIVE Join(_)
Join(words) ==
    IF words = <<>> THEN ""
    ELSE IF Len(words) = 1 THEN words[1]
    ELSE (words[1] \o " ") \o Join(Tail(words))

\* -------------------------------------------------------- ChatDictionary
\* the words a dictionary file may list, as written in the file
RawWords == {"__unk__", "__end__", "__null__", "a", "\\n"}

Counts == {"7"}

\* a file is its lines, each line already split at the tab
DictFiles == SeqsUpTo(RawWords \X Counts, MaxDictLines)

Unescape(_word) == IF _word = "\\n" THEN "\n" ELSE _word

EmptyDictionary == [word2ind |-> <<>>, ind2word |-> <<>>, counts |-> <<>>]

\* LoadLine that keeps the first index of a word listed twice
LoadLine_KeepFirst(self, dict_raw, i) ==
    LET _word == Unescape(At(dict_raw, i)[1])
        _count == At(dict_raw, i)[2]
    IN [word2ind |-> IF _word \in DOMAIN self.word2ind THEN self.word2ind
                     ELSE DictPut(self.word2ind, _word, i),
        ind2word |-> DictPut(self.ind2word, i, _word),
        counts |-> DictPut(self.counts, _word, _count)]

\* one pass of the loop body for line i (0-based) of dict_raw
LoadLine(self, dict_raw, i) ==
    LET _word == Unescape(At(dict_raw, i)[1])
        _count == At(dict_raw, i)[2]
    IN [word2ind |-> DictPut(self.word2ind, _word, i),
        ind2word |-> DictPut(self.ind2word, i, _word),
        counts |-> DictPut(self.counts, _word, _count)]

RECURSIVE LoadLines(_, _, _)
LoadLines(self, dict_raw, i) ==
    IF i >= Len(dict_raw) THEN self
    ELSE LoadLines(LoadLine(self, dict_raw, i), dict_raw, i + 1)

ChatDictionary(dict_raw) == LoadLines(EmptyDictionary, dict_raw, 0)

\* T2vOne with the index of '__unk__' taken to be 0
T2vOne_UnkIsZero(self, w) ==
    IF w \in DOMAIN self.counts THEN self.word2ind[w]
    ELSE 0

\* the lookup of one token in t2v
T2vOne(self, w) ==
    IF w \in DOMAIN self.counts THEN self.word2ind[w]
    ELSE self.word2ind["__unk__"]

\* t2v raises KeyError when a token is unknown and '__unk__' is too
t2v(self, tokenized_text) ==
    IF \E k \in 1..Len(tokenized_text) :
           /\ tokenized_text[k] \notin DOMAIN self.counts
           /\ "__unk__" \notin DOMAIN self.word2ind
    THEN Raise("KeyError")
    ELSE Ok([k \in 1..Len(tokenized_text) |-> T2vOne(self, tokenized_text[k])])

v2t(self, list_ids) ==
    IF \E k \in 1..Len(list_ids) : list_ids[k] \notin DOMAIN self.ind2word
    THEN Raise("KeyError")
    ELSE Ok(Join([k \in 1..Len(list_ids) |-> self.ind2word[list_ids[k]]]))

\* tensor[i].item() == '__end__': a Python int compared with a str
ItemEqualsStr(item, s) == FALSE

\* the loop of pred2text from position i on
RECURSIVE Pred2TextFrom(_, _, _)
Pred2TextFrom(self, tensor, i) ==
    IF i >= Len(tensor) THEN <<>>
    ELSE IF \/ ItemEqualsStr(At(tensor, i), "__end__")
            \/ ItemEqualsStr(At(tensor, i), "__null__")
         THEN <<>>
         ELSE <<self.ind2word[At(tensor, i)]>> \o Pred2TextFrom(self, tensor, i + 1)

pred2text(self, tensor) ==
    IF \E k \in 1..Len(tensor) : tensor[k] \notin DOMAIN self.ind2word
    THEN Raise("KeyError")
    ELSE Ok(Join(Pred2TextFrom(self, tensor, 0)))

DictLen(self) == Cardinality(DOMAIN self.counts)

\* ----------------------------------------------------------- ChatDataset
WordChars == {"a", "b"}

SpaceChars == {" ", "\n"}

\* RETOK.findall(text) from position i (1-based) on; cur is the run of word
\* characters matched so far by \w+.  Alternatives: \w+ | [^\w\s] | \n
RECURSIVE FindallFrom(_, _, _)
FindallFrom(text, i, cur) ==
    LET flush == IF cur = "" THEN <<>> ELSE <<cur>>
    IN IF i > Len(text) THEN flush
       ELSE IF text[i] \in WordChars THEN FindallFrom(text, i + 1, cur \o text[i])
       ELSE IF text[i] = "\n" THEN (flush \o <<"\n">>) \o FindallFrom(text, i + 1, "")
       ELSE IF text[i] \in SpaceChars THEN flush \o FindallFrom(text, i + 1, "")
       ELSE (flush \o <<text[i]>>) \o FindallFrom(text, i + 1, "")

RETOK_findall(text) == FindallFrom(text, 1, "")

\* texts of the json lines, as character sequences
Texts == { <<"a", " ", "b", ".">>, <<"\n", "a", "a">> }

LabelLists == { [labels |-> << <<"a">> >>, eval_labels |-> << <<"\n">>, <<"a">> >>],
                [labels |-> << <<>>, <<"b">> >>, eval_labels |-> << <<"b", " ", "a">> >>] }

\* json.loads of one line
SampleLines == {[text |-> t, labels |-> l.labels, eval_labels |-> l.eval_labels] :
                    t \in Texts, l \in LabelLists}

DatasetFiles == SeqsUpTo(SampleLines, MaxSamples)

DtValues == {"train", "valid", "test"}

\* TarToked that reads labels[0] whatever dt is
TarToked_AlwaysLabels(sample, dt) ==
    Ok(RETOK_findall(At(sample.labels, 0)) \o <<"__end__">>)

\* the target tokens of one sample; unbound for a dt that is neither
TarToked(sample, dt) ==
    IF dt = "train" THEN Ok(RETOK_findall(At(sample.labels, 0)) \o <<"__end__">>)
    ELSE IF dt = "valid" THEN Ok(RETOK_findall(At(sample.eval_labels, 0)) \o <<"__end__">>)
    ELSE Raise("UnboundLocalError")

\* the loop body for one line: the sample with its two vectors, or the
\* exception that ends the construction
LoadSample(sample, dict, dt) ==
    LET _inp_toked_id == t2v(dict, RETOK_findall(sample.text))
        _tar_toked == TarToked(sample, dt)
    IN IF _inp_toked_id.status # "ok" THEN _inp_toked_id
       ELSE IF _tar_toked.status # "ok" THEN _tar_toked
       ELSE LET _tar_toked_id == t2v(dict, _tar_toked.value)
            IN IF _tar_toked_id.status # "ok" THEN _tar_toked_id
               ELSE Ok([text |-> sample.text, labels |-> sample.labels,
                        eval_labels |-> sample.eval_labels,
                        text_vec |-> _inp_toked_id.value,
                        target_vec |-> _tar_toked_id.value])

RECURSIVE LoadSamples(_, _, _, _, _)
LoadSamples(samples, json_text, i, dict, dt) ==
    IF i >= Len(json_text) THEN Ok(samples)
    ELSE LET s == LoadSample(At(json_text, i), dict, dt)
         IN IF s.status # "ok" THEN s
            ELSE LoadSamples(Append(samples, s.value), json_text, i + 1, dict, dt)

ChatDataset(json_text, dict, dt) == LoadSamples(<<>>, json_text, 0, dict, dt)

\* ------------------------------------------- operations on the dictionary
TokenSet == {"__unk__", "__end__", "__null__", "a", "\n", "\\n", "zz"}

NoArgs == [none |-> TRUE]

InitDict ==
    /\ dict_file \in DictFiles
    /\ dictionary = ChatDictionary(dict_file)
    /\ op = "idle"
    /\ args = NoArgs
    /\ result = Ok(<<>>)

CallT2v ==
    /\ op = "idle"
    /\ \E tokenized_text \in SeqsUpTo(TokenSet, MaxTokens) :
        /\ op' = "t2v"
        /\ args' = [tokenized_text |-> tokenized_text]
        /\ result' = t2v(dictionary, tokenized_text)
        /\ UNCHANGED <<dict_file, dictionary>>

CallV2t ==
    /\ op = "idle"
    /\ \E list_ids \in SeqsUpTo(DOMAIN dictionary.ind2word, MaxTokens) :
        /\ op' = "v2t"
        /\ args' = [list_ids |-> list_ids]
        /\ result' = v2t(dictionary, list_ids)
        /\ UNCHANGED <<dict_file, dictionary>>

CallPred2Text ==
    /\ op = "idle"
    /\ \E tensor \in SeqsUpTo(DOMAIN dictionary.ind2word, MaxTokens + 1) :
        /\ op' = "pred2text"
        /\ args' = [tensor |-> tensor]
        /\ result' = pred2text(dictionary, tensor)
        /\ UNCHANGED <<dict_file, dictionary>>

CallLen ==
    /\ op = "idle"
    /\ op' = "len"
    /\ args' = NoArgs
    /\ result' = Ok(DictLen(dictionary))
    /\ UNCHANGED <<dict_file, dictionary>>

CallChatDataset ==
    /\ op = "idle"
    /\ \E json_text \in DatasetFiles, dt \in DtValues :
        /\ op' = "ChatDataset"
        /\ args' = [json_text |-> json_text, dt |-> dt]
        /\ result' = ChatDataset(json_text, dictionary, dt)
        /\ UNCHANGED <<dict_file, dictionary>>

\* the caller takes the value (or the exception) and is free to call again
Return ==
    /\ op # "idle"
    /\ op' = "idle"
    /\ args' = NoArgs
    /\ result' = Ok(<<>>)
    /\ UNCHANGED <<dict_file, dictionary>>

NextDict == CallT2v \/ CallV2t \/ CallPred2Text \/ CallLen \/ CallChatDataset \/ Return

SpecDict == InitDict /\ [][NextDict]_vars

\* ------------------------------------------- pad_tensor, argsort, batchify
Ids == {0, 1}

\* 1-D tensors of token ids: the inputs of a batch, and its labels
Vecs == {[c \in 1..n |-> v] : n \in 0..MaxVec, v \in Ids}

LabelVecs == {[c \in 1..n |-> 1] : n \in 0..MaxVec}

PadTokens == {0, 5}

RECURSIVE MaxOf(_)
MaxOf(lengths) ==
    IF Len(lengths) = 1 THEN lengths[1]
    ELSE LET m == MaxOf(Tail(lengths))
         IN IF lengths[1] >= m THEN lengths[1] ELSE m

\* a list, or a tensor indexed along its first dimension
List(data) == [kind |-> "list", data |-> data]

Tensor(data) == [kind |-> "tensor", data |-> data]

\* the rows in the order pad_tensor writes them
PadRows(tensors, lengths, max_t, pad_token) ==
    [i \in 1..Len(tensors) |->
        [c \in 1..max_t |-> IF c <= lengths[i] THEN tensors[i][c] ELSE pad_token]]

\* pad_tensor that honours sort by putting the longest rows first
pad_tensor_Sorting(tensors, sort, pad_token) ==
    IF tensors = <<>> THEN Raise("ValueError")
    ELSE LET lengths == [i \in 1..Len(tensors) |-> Len(tensors[i])]
             max_t == MaxOf(lengths)
             rows == PadRows(tensors, lengths, max_t, pad_token)
         IN IF sort /\ Len(tensors) > 1 /\ lengths[1] < lengths[Len(tensors)]
            THEN Ok(<<Tensor(Reversed(rows)), Reversed(lengths)>>)
            ELSE Ok(<<Tensor(rows), lengths>>)

\* max() of an empty list raises ValueError
pad_tensor(tensors, sort, pad_token) ==
    IF tensors = <<>> THEN Raise("ValueError")
    ELSE LET lengths == [i \in 1..Len(tensors) |-> Len(tensors[i])]
             max_t == MaxOf(lengths)
         IN Ok(<<Tensor(PadRows(tensors, lengths, max_t, pad_token)), lengths>>)

\* StableRank with equal keys ranked latest first
StableRank_TiesReversed(keys, k) ==
    Cardinality({j \in 0..(Len(keys) - 1) :
                    \/ At(keys, j) < At(keys, k)
                    \/ (At(keys, j) = At(keys, k) /\ j > k)})

\* sorted() is stable: the place of index k in the result is the number of
\* indices of smaller key, plus the earlier indices of equal key
StableRank(keys, k) ==
    Cardinality({j \in 0..(Len(keys) - 1) :
                    \/ At(keys, j) < At(keys, k)
                    \/ (At(keys, j) = At(keys, k) /\ j < k)})

\* sorted(range(len(keys)), key=lambda k: keys[k])
SortedRange(keys) ==
    [r \in 1..Len(keys) |-> CHOOSE k \in 0..(Len(keys) - 1) : StableRank(keys, k) = r - 1]

\* IndSorted that forgets to reverse
IndSorted_NoReverse(keys, descending) == SortedRange(keys)

IndSorted(keys, descending) ==
    IF descending THEN Reversed(SortedRange(keys))
    ELSE SortedRange(keys)

\* lst[ind_sorted] for a tensor, [lst[i] for i in ind_sorted] for a list
ReorderOne(lst, ind_sorted) ==
    IF lst.kind = "tensor"
    THEN Tensor([j \in 1..Len(ind_sorted) |-> At(lst.data, ind_sorted[j])])
    ELSE List([j \in 1..Len(ind_sorted) |-> At(lst.data, ind_sorted[j])])

argsort(keys, lists, descending) ==
    LET ind_sorted == IndSorted(keys, descending)
    IN [n \in 1..Len(lists) |-> ReorderOne(lists[n], ind_sorted)]

\* batchify that reorders the labels by their own lengths
batchify_LabelsByOwnLength(batch) ==
    LET inputs == [i \in 1..Len(batch) |-> batch[i][1]]
        labels == [i \in 1..Len(batch) |-> batch[i][2]]
        padded_inputs == pad_tensor(inputs, TRUE, 0)
        padded_labels == pad_tensor(labels, TRUE, 0)
    IN IF padded_inputs.status # "ok" THEN padded_inputs
       ELSE LET input_lens == padded_inputs.value[2]
                label_lens == padded_labels.value[2]
                a == argsort(input_lens, <<padded_inputs.value[1], List(input_lens)>>, TRUE)
                b == argsort(label_lens, <<padded_labels.value[1], List(label_lens)>>, TRUE)
            IN Ok([text_vecs |-> a[1], text_lens |-> a[2].data,
                   target_vecs |-> b[1], target_lens |-> b[2].data,
                   use_packed |-> TRUE])

batchify(batch) ==
    LET inputs == [i \in 1..Len(batch) |-> batch[i][1]]
        labels == [i \in 1..Len(batch) |-> batch[i][2]]
        padded_inputs == pad_tensor(inputs, TRUE, 0)
        padded_labels == pad_tensor(labels, TRUE, 0)
    IN IF padded_inputs.status # "ok" THEN padded_inputs
       ELSE LET input_lens == padded_inputs.value[2]
                label_lens == padded_labels.value[2]
                sorted == argsort(input_lens,
                                  <<padded_inputs.value[1], List(input_lens),
                                    padded_labels.value[1], List(label_lens)>>, TRUE)
            IN Ok([text_vecs |-> sorted[1], text_lens |-> sorted[2].data,
                   target_vecs |-> sorted[3], target_lens |-> sorted[4].data,
                   use_packed |-> TRUE])

\* lists and tensors to reorder: n entries that all differ
Bases == {0, 100}

ListInputs(n) ==
    {List([j \in 1..n |-> v + j]) : v \in Bases} \cup {Tensor([j \in 1..n |-> v + j]) : v \in Bases}

InitSort ==
    /\ dict_file = <<>>
    /\ dictionary = ChatDictionary(dict_file)
    /\ op = "idle"
    /\ args = NoArgs
    /\ result = Ok(<<>>)

CallPadTensor ==
    /\ op = "idle"
    /\ \E tensors \in SeqsUpTo(Vecs, MaxBatch), sort \in BOOLEAN, pad_token \in PadTokens :
        /\ op' = "pad_tensor"
        /\ args' = [tensors |-> tensors, sort |-> sort, pad_token |-> pad_token]
        /\ result' = pad_tensor(tensors, sort, pad_token)
        /\ UNCHANGED <<dict_file, dictionary>>

CallArgsort ==
    /\ op = "idle"
    /\ \E keys \in SeqsUpTo(1..MaxKey, MaxLen), descending \in BOOLEAN :
          \E lists \in SeqsUpTo(ListInputs(Len(keys)), MaxLists) :
            /\ op' = "argsort"
            /\ args' = [keys |-> keys, lists |-> lists, descending |-> descending]
            /\ result' = Ok(argsort(keys, lists, descending))
            /\ UNCHANGED <<dict_file, dictionary>>

CallBatchify ==
    /\ op = "idle"
    /\ \E batch \in SeqsUpTo(Vecs \X LabelVecs, MaxBatch) :
        /\ op' = "batchify"
        /\ args' = [batch |-> batch]
        /\ result' = batchify(batch)
        /\ UNCHANGED <<dict_file, dictionary>>

NextSort == CallPadTensor \/ CallArgsort \/ CallBatchify \/ Return

SpecSort == InitSort /\ [][NextSort]_vars

\* ------------------------------------------------ beam-search reordering
\* encoder outputs and attention masks of batch size B
EncOuts(B) == {Tensor([b \in 1..B |-> v + b]) : v \in Bases}

Masks(B) == {Tensor([b \in 1..B |-> (v + b) % 2]) : v \in {0, 1}}

Tuple(items) == [kind |-> "tuple", items |-> items]

\* torch.is_tensor(x), isinstance(x, torch.Tensor)
is_tensor(x) == x.kind = "tensor"

\* torch.LongTensor(indices)
LongTensor(indices) == Tensor(indices.data)

\* t.index_select(dim, indices); the index has to be a tensor
index_select(t, dim, indices) ==
    IF ~is_tensor(indices) THEN Raise("TypeError")
    ELSE IF dim = 0
         THEN Ok(Tensor([j \in 1..Len(indices.data) |-> At(t.data, indices.data[j])]))
         ELSE Ok(Tensor([l \in 1..Len(t.data) |->
                     [j \in 1..Len(indices.data) |-> At(t.data[l], indices.data[j])]]))

\* reorder_encoder_states that leaves the cell state as it was
reorder_encoder_states_CellKept(encoder_states, indices) ==
    LET enc_out == encoder_states[1]
        hidden == encoder_states[2]
        attention_mask == encoder_states[3]
        hid == IF is_tensor(hidden) THEN hidden ELSE hidden.items[1]
        ind == IF ~is_tensor(indices) THEN LongTensor(indices) ELSE indices
        new_hid == index_select(hid, 1, ind)
        new_enc == index_select(enc_out, 0, ind)
        new_mask == index_select(attention_mask, 0, ind)
    IN IF is_tensor(hidden)
       THEN Ok(<<new_enc.value, new_hid.value, new_mask.value>>)
       ELSE Ok(<<new_enc.value, Tuple(<<new_hid.value, hidden.items[2]>>), new_mask.value>>)

reorder_encoder_states(encoder_states, indices) ==
    LET enc_out == encoder_states[1]
        hidden == encoder_states[2]
        attention_mask == encoder_states[3]
        hid == IF is_tensor(hidden) THEN hidden ELSE hidden.items[1]
        ind == IF ~is_tensor(indices) THEN LongTensor(indices) ELSE indices
        new_hid == index_select(hid, 1, ind)
        new_enc == index_select(enc_out, 0, ind)
        new_mask == index_select(attention_mask, 0, ind)
    IN IF new_hid.status # "ok" THEN new_hid
       ELSE IF is_tensor(hidden)
       THEN Ok(<<new_enc.value, new_hid.value, new_mask.value>>)
       ELSE LET new_cell == index_select(hidden.items[2], 1, ind)
            IN Ok(<<new_enc.value, Tuple(<<new_hid.value, new_cell.value>>), new_mask.value>>)

\* the tuple branch calls self.reorder_decoder_incremental_state, and no name
\* self exists in a module-level function: the first element raises NameError
reorder_decoder_incremental_state(incremental_state, inds) ==
    IF is_tensor(incremental_state) THEN index_select(incremental_state, 1, inds)
    ELSE IF incremental_state.kind = "tuple"
         THEN IF incremental_state.items = <<>> THEN Ok(Tuple(<<>>))
              ELSE Raise("NameError")
         ELSE Ok([kind |-> "None"])

\* hidden states of batch size B: one row of batch entries per layer, the
\* entries all different
Hiddens(B) ==
    {Tensor([l \in 1..L |-> [b \in 1..B |-> v + (10 * l) + b]]) : L \in 1..MaxLayers, v \in Bases}

\* a tensor (GRU), a tuple of tensors (LSTM), or a tuple that holds a tuple
DecStates(B) ==
    LET flat == {Tuple(t) : t \in SeqsUpTo(Hiddens(B), MaxTuple)}
    IN (Hiddens(B) \cup flat) \cup {Tuple(<<x, y>>) : x \in flat, y \in Hiddens(B)}

InitBeam ==
    /\ dict_file = <<>>
    /\ dictionary = ChatDictionary(dict_file)
    /\ op = "idle"
    /\ args = NoArgs
    /\ result = Ok(<<>>)

CallReorderEncoderStates ==
    /\ op = "idle"
    /\ \E B \in 1..MaxBatch :
         \E enc_out \in EncOuts(B), attention_mask \in Masks(B),
            hidden \in Hiddens(B) \cup {Tuple(<<h, c>>) : h \in Hiddens(B), c \in Hiddens(B)},
            indices \in {List(d) : d \in SeqsUpTo(0..(B - 1), MaxInd)}
                        \cup {Tensor(d) : d \in SeqsUpTo(0..(B - 1), MaxInd)} :
            /\ op' = "reorder_encoder_states"
            /\ args' = [encoder_states |-> <<enc_out, hidden, attention_mask>>,
                        indices |-> indices]
            /\ result' = reorder_encoder_states(<<enc_out, hidden, attention_mask>>, indices)
            /\ UNCHANGED <<dict_file, dictionary>>

CallReorderDecoderIncrementalState ==
    /\ op = "idle"
    /\ \E B \in 1..MaxBatch :
         \E incremental_state \in DecStates(B), inds \in SeqsUpTo(0..(B - 1), MaxInd) :
            /\ op' = "reorder_decoder_incremental_state"
            /\ args' = [incremental_state |-> incremental_state, inds |-> Tensor(inds)]
            /\ result' = reorder_decoder_incremental_state(incremental_state, Tensor(inds))
            /\ UNCHANGED <<dict_file, dictionary>>

NextBeam == CallReorderEncoderStates \/ CallReorderDecoderIncrementalState \/ Return

SpecBeam == InitBeam /\ [][NextBeam]_vars

\* ------------------------------------------------ claims on the dictionary
\* the words of the file as the constructor reads them
FileWord(i) == Unescape(At(dict_file, i)[1])

FileWords == {FileWord(i) : i \in 0..(Len(dict_file) - 1)}

\* the last line (0-based) of the file that lists w
LastLine(w) ==
    CHOOSE i \in 0..(Len(dict_file) - 1) :
        /\ FileWord(i) = w
        /\ \A j \in 0..(Len(dict_file) - 1) : FileWord(j) = w => j <= i

\* C5: t2v keeps the length of its input; position k holds word2ind[token k]
\* when token k is a word of the dictionary file and word2ind['__unk__']
\* otherwise, and a word of the file other than '__unk__' never gets the
\* index of '__unk__'.
C5_T2vLookup ==
    (/\ op = "t2v"
     /\ \/ "__unk__" \in FileWords
        \/ \A k \in 1..Len(args.tokenized_text) : args.tokenized_text[k] \in FileWords) =>
        LET toks == args.tokenized_text
        IN /\ result.status = "ok"
           /\ Len(result.value) = Len(toks)
           /\ \A k \in 1..Len(toks) :
                 /\ toks[k] \in FileWords => result.value[k] = dictionary.word2ind[toks[k]]
                 /\ toks[k] \notin FileWords => result.value[k] = dictionary.word2ind["__unk__"]
                 /\ (toks[k] \in FileWords /\ toks[k] # "__unk__" /\ "__unk__" \in FileWords) =>
                       result.value[k] # dictionary.word2ind["__unk__"]

C5_Witness ==
    /\ op = "t2v"
    /\ result.status = "ok"
    /\ Len(args.tokenized_text) = 2
    /\ args.tokenized_text[1] \in FileWords \ {"__unk__"}
    /\ args.tokenized_text[2] \notin FileWords
    /\ dictionary.word2ind["__unk__"] > 0

\* the positions (1-based) of tensor that hold '__end__' or '__null__'
StopPositions(tensor) ==
    {k \in 1..Len(tensor) : dictionary.ind2word[tensor[k]] \in {"__end__", "__null__"}}

FirstStop(tensor) ==
    IF StopPositions(tensor) = {} THEN Len(tensor) + 1
    ELSE CHOOSE k \in StopPositions(tensor) : \A j \in StopPositions(tensor) : k <= j

\* C6: pred2text returns the space-joined words of the ids before the first
\* position that holds '__end__' or '__null__', and all of them when neither
\* occurs.
C6_Pred2TextStops ==
    (op = "pred2text" /\ result.status = "ok") =>
        LET tensor == args.tensor
        IN result.value =
             Join([k \in 1..(FirstStop(tensor) - 1) |-> dictionary.ind2word[tensor[k]]])

\* the first label of a sample under dt
FirstLabel(sample, dt) ==
    IF dt = "train" THEN At(sample.labels, 0) ELSE At(sample.eval_labels, 0)

\* C8: for dt 'train' and 'valid' the dataset holds one sample per line in
\* file order, text_vec is t2v of the tokens of the text, and target_vec is
\* t2v of the tokens of the first label (labels[0] for 'train',
\* eval_labels[0] for 'valid') followed by the one id of '__end__'; for any
\* other dt the construction over a non-empty file fails.
C8_DatasetConstruction ==
    op = "ChatDataset" =>
        LET json_text == args.json_text
            dt == args.dt
        IN /\ (dt \in {"train", "valid"} /\ "__unk__" \in FileWords) => result.status = "ok"
           /\ (dt \in {"train", "valid"} /\ result.status = "ok") =>
                 /\ Len(result.value) = Len(json_text)
                 /\ \A i \in 1..Len(json_text) :
                       LET sample == result.value[i]
                           label == RETOK_findall(FirstLabel(json_text[i], dt))
                       IN /\ sample.text = json_text[i].text
                          /\ Ok(sample.text_vec) = t2v(dictionary, RETOK_findall(json_text[i].text))
                          /\ Len(sample.target_vec) = Len(label) + 1
                          /\ Ok(SubSeq(sample.target_vec, 1, Len(label))) = t2v(dictionary, label)
                          /\ sample.target_vec[Len(label) + 1] = T2vOne(dictionary, "__end__")
                          /\ "__end__" \in FileWords =>
                                sample.target_vec[Len(label) + 1] = LastLine("__end__")
           /\ (dt \notin {"train", "valid"} /\ json_text # <<>>) => result.status # "ok"

C8_Witness ==
    /\ op = "ChatDataset"
    /\ args.dt = "valid"
    /\ result.status = "ok"
    /\ Len(result.value) = 2
    /\ result.value[1].text # result.value[2].text
    /\ "__end__" \in FileWords
    /\ \E i \in 1..2 : Len(result.value[i].target_vec) = 3

\* C9 as stated: word2ind and ind2word are inverse and the length is the
\* number of lines, for every file: t2v([ind2word[i]]) = [i] for every line
\* i, and len(dictionary) is the number of lines.
C9_InverseAndLen ==
    /\ (op = "t2v" /\ Len(args.tokenized_text) = 1) =>
          \A i \in DOMAIN dictionary.ind2word :
              dictionary.ind2word[i] = args.tokenized_text[1] => result = Ok(<<i>>)
    /\ op = "len" => result = Ok(Len(dict_file))

\* C9 amended: ind2word[i] is the word of line i; t2v([ind2word[i]]) is
\* [j] for the last line j that lists the word of line i (so [i] exactly
\* when no later line repeats it), and len(dictionary) is the number of
\* distinct words of the file.
C9_LastLineAndDistinct ==
    /\ DOMAIN dictionary.ind2word = 0..(Len(dict_file) - 1)
    /\ \A i \in DOMAIN dictionary.ind2word : dictionary.ind2word[i] = FileWord(i)
    /\ (op = "t2v" /\ Len(args.tokenized_text) = 1) =>
          \A i \in DOMAIN dictionary.ind2word :
              dictionary.ind2word[i] = args.tokenized_text[1] =>
                  /\ result = Ok(<<LastLine(FileWord(i))>>)
                  /\ (result = Ok(<<i>>)) <=>
                        (\A j \in DOMAIN dictionary.ind2word : j > i => FileWord(j) # FileWord(i))
    /\ op = "len" => result = Ok(Cardinality(FileWords))

C9_Witness ==
    /\ op = "t2v"
    /\ Len(args.tokenized_text) = 1
    /\ \E i, j \in DOMAIN dictionary.ind2word :
          /\ i < j
          /\ dictionary.ind2word[i] = args.tokenized_text[1]
          /\ dictionary.ind2word[j] = args.tokenized_text[1]
          /\ result = Ok(<<j>>)

\* ------------------------------------- claims on padding and sorting
Perms(n) == {p \in [1..n -> 0..(n - 1)] : \A i, j \in 1..n : i # j => p[i] # p[j]}

\* every returned list is its input list read through p
ReorderedBy(p, lists, out) ==
    /\ Len(out) = Len(lists)
    /\ \A n \in 1..Len(lists) :
          /\ out[n].kind = lists[n].kind
          /\ Len(out[n].data) = Len(p)
          /\ \A j \in 1..Len(p) : out[n].data[j] = At(lists[n].data, p[j])

\* keys read through p are in order
KeysInOrder(p, keys, descending) ==
    \A j \in 1..(Len(p) - 1) :
        IF descending THEN At(keys, p[j]) >= At(keys, p[j + 1])
        ELSE At(keys, p[j]) <= At(keys, p[j + 1])

\* C1: argsort returns one entry per input list, in the order passed; every
\* entry is its list reordered by one and the same permutation p of
\* 0..len(keys)-1, and the keys read through p are non-decreasing when
\* descending is False and non-increasing when it is True.
C1_ArgsortPermutation ==
    op = "argsort" =>
        /\ result.status = "ok"
        /\ \E p \in Perms(Len(args.keys)) :
              /\ ReorderedBy(p, args.lists, result.value)
              /\ KeysInOrder(p, args.keys, args.descending)

C1_Witness ==
    /\ op = "argsort"
    /\ args.descending
    /\ Len(args.lists) = 2
    /\ args.lists[1].kind # args.lists[2].kind
    /\ Len(args.keys) = 3
    /\ args.keys[1] < args.keys[2]
    /\ result.value[1].data # args.lists[1].data
    /\ result.value[2].data # args.lists[2].data

\* row j of the padded batch for the vector v
PaddedRow(v, width) == [c \in 1..width |-> IF c <= Len(v) THEN v[c] ELSE 0]

\* the four outputs of batchify at row j are those of batch position p[j]
AlignedBy(p, batch, out) ==
    LET n == Len(batch)
        in_w == MaxOf([i \in 1..n |-> Len(batch[i][1])])
        lab_w == MaxOf([i \in 1..n |-> Len(batch[i][2])])
    IN /\ Len(out.text_vecs.data) = n
       /\ Len(out.text_lens) = n
       /\ Len(out.target_vecs.data) = n
       /\ Len(out.target_lens) = n
       /\ \A j \in 1..n :
             /\ out.text_vecs.data[j] = PaddedRow(At(batch, p[j])[1], in_w)
             /\ out.text_lens[j] = Len(At(batch, p[j])[1])
             /\ out.target_vecs.data[j] = PaddedRow(At(batch, p[j])[2], lab_w)
             /\ out.target_lens[j] = Len(At(batch, p[j])[2])

\* C2: for a non-empty batch, text_lens is non-increasing, the four returned
\* sequences are those of the samples read through one permutation p of the
\* batch positions (none lost, none duplicated), and use_packed is True.
C2_BatchifyAligned ==
    (op = "batchify" /\ args.batch # <<>>) =>
        /\ result.status = "ok"
        /\ result.value.use_packed = TRUE
        /\ \A j \in 1..(Len(result.value.text_lens) - 1) :
              result.value.text_lens[j] >= result.value.text_lens[j + 1]
        /\ \E p \in Perms(Len(args.batch)) : AlignedBy(p, args.batch, result.value)

C2_Witness ==
    /\ op = "batchify"
    /\ Len(args.batch) = 2
    /\ Len(args.batch[1][1]) < Len(args.batch[2][1])
    /\ Len(args.batch[1][2]) > Len(args.batch[2][2])
    /\ result.status = "ok"
    /\ result.value.target_lens[1] < result.value.target_lens[2]

\* C7: for a non-empty list of 1-D tensors the output has one row per tensor
\* and max-length columns; row i is tensors[i] followed by pad_token, and
\* lengths[i] is len(tensors[i]); rows keep their order whatever sort is.
C7_PadTensorRows ==
    (op = "pad_tensor" /\ args.tensors # <<>>) =>
        /\ result.status = "ok"
        /\ LET tensors == args.tensors
               output == result.value[1].data
               lengths == result.value[2]
           IN /\ Len(output) = Len(tensors)
              /\ Len(lengths) = Len(tensors)
              /\ \A i \in 1..Len(tensors) :
                    /\ lengths[i] = Len(tensors[i])
                    /\ \A m \in 1..Len(tensors) : Len(output[i]) >= Len(tensors[m])
                    /\ \E m \in 1..Len(tensors) : Len(output[i]) = Len(tensors[m])
                    /\ \A c \in 1..Len(output[i]) :
                          output[i][c] = IF c <= Len(tensors[i]) THEN tensors[i][c]
                                         ELSE args.pad_token

C7_Witness ==
    /\ op = "pad_tensor"
    /\ args.sort
    /\ args.pad_token = 5
    /\ Len(args.tensors) = 2
    /\ Len(args.tensors[1]) < Len(args.tensors[2])
    /\ result.status = "ok"
    /\ result.value[1].data[1][Len(args.tensors[2])] = 5

\* positions of equal key keep their order through p (or reverse it)
TiesInOrder(p, keys, reverse) ==
    \A j, k \in 1..Len(p) :
        (j < k /\ At(keys, p[j]) = At(keys, p[k])) =>
            IF reverse THEN p[j] > p[k] ELSE p[j] < p[k]

\* C10: with descending=False argsort keeps elements of equal key in their
\* original relative order; with descending=True the order is the reverse of
\* that one, so elements of equal key come out in reverse; batchify places
\* samples of equal input length in reverse batch order.
C10_TieOrder ==
    /\ op = "argsort" =>
          \E p \in Perms(Len(args.keys)) :
              /\ ReorderedBy(p, args.lists, result.value)
              /\ KeysInOrder(p, args.keys, args.descending)
              /\ TiesInOrder(p, args.keys, args.descending)
    /\ (op = "batchify" /\ args.batch # <<>>) =>
          \E p \in Perms(Len(args.batch)) :
              /\ AlignedBy(p, args.batch, result.value)
              /\ TiesInOrder(p, [i \in 1..Len(args.batch) |-> Len(args.batch[i][1])], TRUE)

C10_Witness ==
    /\ op = "batchify"
    /\ Len(args.batch) = 2
    /\ Len(args.batch[1][1]) = Len(args.batch[2][1])
    /\ args.batch[1][1] # args.batch[2][1]
    /\ result.status = "ok"
    /\ result.value.text_vecs.data[1] = args.batch[2][1]
    /\ result.value.text_vecs.data[2] = args.batch[1][1]

\* ------------------------------------------------ claims on the reordering
\* a tensor read through ind along dimension 0, or along dimension 1
Dim0By(t, ind) == Tensor([j \in 1..Len(ind) |-> At(t.data, ind[j])])

Dim1By(t, ind) == Tensor([l \in 1..Len(t.data) |-> [j \in 1..Len(ind) |-> At(t.data[l], ind[j])]])

\* C3: reorder_encoder_states reorders every component by the same indices:
\* enc_out and attention_mask along dimension 0, hidden along dimension 1;
\* a (hid, cell) pair has both reordered and comes back as a pair, a single
\* tensor comes back as a single tensor; a plain list of indices gives what
\* the same indices give as a tensor.
C3_EncoderStatesReordered ==
    op = "reorder_encoder_states" =>
        LET ind == args.indices.data
            hidden == args.encoder_states[2]
        IN /\ result.status = "ok"
           /\ result.value[1] = Dim0By(args.encoder_states[1], ind)
           /\ result.value[3] = Dim0By(args.encoder_states[3], ind)
           /\ hidden.kind = "tensor" => result.value[2] = Dim1By(hidden, ind)
           /\ hidden.kind = "tuple" =>
                 result.value[2] = Tuple(<<Dim1By(hidden.items[1], ind), Dim1By(hidden.items[2], ind)>>)

C3_Witness ==
    /\ op = "reorder_encoder_states"
    /\ args.indices = List(<<1, 0>>)
    /\ args.encoder_states[2].kind = "tuple"
    /\ result.status = "ok"
    /\ result.value[1] # args.encoder_states[1]
    /\ result.value[2].items[2] # args.encoder_states[2].items[2]
    /\ result.value[3] # args.encoder_states[3]

\* every tensor of a (nested) tuple read through ind along dimension 1
RECURSIVE ReorderedState(_, _)
ReorderedState(state, ind) ==
    IF state.kind = "tensor" THEN Dim1By(state, ind)
    ELSE Tuple([n \in 1..Len(state.items) |-> ReorderedState(state.items[n], ind)])

\* C4: reorder_decoder_incremental_state returns a single tensor reordered
\* along dimension 1 by inds, and a tuple of tensors (arbitrarily nested) as
\* a tuple of the same length with every element reordered along dimension
\* 1 by inds; it completes without raising.
C4_DecoderStateReordered ==
    op = "reorder_decoder_incremental_state" =>
        /\ result.status = "ok"
        /\ result.value = ReorderedState(args.incremental_state, args.inds.data)

====
